---- MODULE Spec2Model ----
(***************************************************************************)
(* State-machine model of the clipboard server's authentication core:      *)
(* the user and session tables (database/mod.rs), the JWT codec as it is   *)
(* used by the handlers (handlers/auth.rs), the auth middleware            *)
(* (middlewares/mod.rs) and the route table (main.rs).                     *)
(*                                                                         *)
(* Conventions.                                                            *)
(*  - An Option<T> is a sequence of length 0 (None) or 1 (Some).           *)
(*  - A Result is a record [ok |-> TRUE, val |-> v] or                     *)
(*    [ok |-> FALSE, err |-> e], e being "RowNotFound" or "Database".      *)
(*  - A string is a sequence of atoms.  An atom is a record with a field   *)
(*    w: a literal piece of text ([w |-> "Bearer"], [w |-> " "]) or a      *)
(*    signed token ([w |-> "jwt", sub, exp, iat, key]).  HS256 over the    *)
(*    serialised header and claims is deterministic, so a token string is  *)
(*    a function of (sub, exp, iat, secret) and nothing else.              *)
(*  - Time is whole seconds (timestamp() of Utc::now(), NOW() of MySQL).   *)
(*  - Every store round trip may fail: a handler's input `fails` is the    *)
(*    set of its round trips that return a database error this time.       *)
(***************************************************************************)
EXTENDS Integers, Sequences, FiniteSets, TLC

VARIABLES clip_users, clip_user_sessions, next_session_id, now, revoked, last,
          registering, clip_contents

vars ==
  <<clip_users, clip_user_sessions, next_session_id, now, revoked, last, registering,
    clip_contents>>

\* ---------------------------------------------------------------- bounds

\* Last instant of the clock.
MaxTime == 3

\* Number of session rows the AUTO_INCREMENT counter hands out.
MaxSessions == 2

\* Number of rows of clip_contents.
MaxClips == 2

\* config.jwt_expires_in and config.jwt_refresh_expires_in, in seconds.
jwt_expires_in == 2

jwt_refresh_expires_in == 3

\* ---------------------------------------------------------------- constants

\* bcrypt reads at most 72 bytes of its input.
BcryptMaxLen == 72

\* jsonwebtoken's Validation::default() accepts exp up to 60 s in the past.
Leeway == 60

\* page, page_size and the offset are i64.
I64Bits == 64

jwt_secret == "server_secret"

\* The bodies of the register requests: a user, and a second request for the
\* same username with another email and password.
RegisterRequests ==
  {[username |-> "alice", email |-> "a@x.com", password |-> <<[w |-> "secret123"]>>],
   [username |-> "alice", email |-> "b@x.com", password |-> <<[w |-> "wrongpass"]>>]}

\* The bodies of the login requests; nobody registers as carol.
LoginRequests ==
  {[username |-> "alice", password |-> <<[w |-> "secret123"]>>],
   [username |-> "alice", password |-> <<[w |-> "wrongpass"]>>],
   [username |-> "carol", password |-> <<[w |-> "secret123"]>>]}

\* The bodies of the requests of two users, each with the right password.
TwoUserRegisterRequests ==
  {[username |-> "alice", email |-> "a@x.com", password |-> <<[w |-> "secret123"]>>],
   [username |-> "bob", email |-> "b@x.com", password |-> <<[w |-> "hunter2"]>>]}

TwoUserLoginRequests ==
  {[username |-> "alice", password |-> <<[w |-> "secret123"]>>],
   [username |-> "bob", password |-> <<[w |-> "hunter2"]>>]}

\* Uuid::new_v4().to_string()
Salts == {<<[w |-> "uuid-1"]>>}

\* ConnectInfo<SocketAddr>, when the server provides it.
Addrs == {<<>>}

\* ---------------------------------------------------------------- helpers

None == <<>>

Some(x) == <<x>>

Ok(v) == [ok |-> TRUE, val |-> v]

Err(e) == [ok |-> FALSE, err |-> e]

Min(a, b) == IF a < b THEN a ELSE b

\* An i64 is its two's complement bit pattern in four 16-bit limbs, the least
\* significant first.
Limb == 2^(I64Bits \div 4)

i64(n) == <<n, 0, 0, 0>>

I64Zero == i64(0)

I64MinusOne == <<Limb - 1, Limb - 1, Limb - 1, Limb - 1>>

I64Max == <<Limb - 1, Limb - 1, Limb - 1, (Limb \div 2) - 1>>

i64_is_negative(x) == x[4] >= Limb \div 2

\* x < n, for 0 <= n < 2^16
i64_less_than(x, n) ==
  i64_is_negative(x) \/ (x[2] = 0 /\ x[3] = 0 /\ x[4] = 0 /\ x[1] < n)

\* x > n, for 0 <= n < 2^16
i64_greater_than(x, n) ==
  ~i64_is_negative(x) /\ (x[2] # 0 \/ x[3] # 0 \/ x[4] # 0 \/ x[1] > n)

\* x - 1, for x >= 1
i64_sub_one(x) ==
  IF x[1] > 0 THEN <<x[1] - 1, x[2], x[3], x[4]>>
  ELSE IF x[2] > 0 THEN <<Limb - 1, x[2] - 1, x[3], x[4]>>
  ELSE IF x[3] > 0 THEN <<Limb - 1, Limb - 1, x[3] - 1, x[4]>>
  ELSE <<Limb - 1, Limb - 1, Limb - 1, x[4] - 1>>

\* x * k for x >= 0 and 0 <= k < 2^15: the low 64 bits of the product, and
\* whether the product is outside the range of an i64.
i64_mul(x, k) ==
  LET p1 == x[1] * k
      p2 == x[2] * k + (p1 \div Limb)
      p3 == x[3] * k + (p2 \div Limb)
      p4 == x[4] * k + (p3 \div Limb)
      low == <<p1 % Limb, p2 % Limb, p3 % Limb, p4 % Limb>>
  IN [value |-> low, overflow |-> (p4 \div Limb) > 0 \/ i64_is_negative(low)]

\* bcrypt::hash / bcrypt::verify: a digest of the first 72 bytes of the input.
hash(text) == SubSeq(text, 1, Min(Len(text), BcryptMaxLen))

verify(text, digest) == hash(text) = digest

\* jsonwebtoken::encode(&Header::new(HS256), &claims, &EncodingKey::from_secret(..))
encode(claims, secret) ==
  <<[w |-> "jwt", sub |-> claims.sub, exp |-> claims.exp, iat |-> claims.iat,
     key |-> secret]>>

\* jsonwebtoken::decode::<TokenClaims>(token, secret, &Validation::default()):
\* one well-formed token, signed with `secret`, with exp not before t - leeway.
decode(token, secret, t) ==
  IF /\ Len(token) = 1
     /\ token[1].w = "jwt"
     /\ token[1].key = secret
     /\ token[1].exp >= t - Leeway
  THEN Ok([sub |-> token[1].sub, exp |-> token[1].exp, iat |-> token[1].iat])
  ELSE Err("InvalidToken")

Bearer == [w |-> "Bearer"]

Space == [w |-> " "]

\* header.starts_with("Bearer ")
StartsWithBearer(header) ==
  Len(header) >= 2 /\ header[1] = Bearer /\ header[2] = Space

\* &header[7..]
AfterBearer(header) == SubSeq(header, 3, Len(header))

\* ---------------------------------------------------------------- storage rules

\* clip_users.username is unique.
UniqueUsernameViolation(users, username) ==
  \E u \in users : u.username = username

\* clip_user_sessions.token and .refresh_token are unique.
UniqueTokenViolation(sessions, token, refresh) ==
  \E s \in sessions : s.token = token \/ s.refresh_token = refresh

\* check_database_health: SELECT 1
check_database_health(fails) ==
  IF "select_1" \in fails THEN Err("Database") ELSE Ok(TRUE)

\* ---------------------------------------------------------------- UserRepository

\* fetch_one of the rows `rows`: the row, or RowNotFound.
fetch_one(rows) == IF rows = {} THEN Err("RowNotFound") ELSE Ok(CHOOSE r \in rows : TRUE)

\* UserRepository::find_by_id
find_user_by_id(users, id, fails) ==
  IF "find_user_by_id" \in fails THEN Err("Database")
  ELSE fetch_one({u \in users : u.id = id})

\* UserRepository::find_by_username
find_by_username(users, username, fails) ==
  IF "find_by_username" \in fails THEN Err("Database")
  ELSE fetch_one({u \in users : u.username = username})

\* The row INSERT INTO clip_users (username, email, password_hash, salt) creates;
\* the other columns take the table's defaults.
new_user_row(users, user_data, salt) ==
  [id |-> Cardinality(users) + 1,
   username |-> user_data.username,
   email |-> user_data.email,
   password_hash |-> hash(user_data.password \o salt),
   salt |-> salt,
   status |-> 1,
   last_login_at |-> None,
   last_login_ip |-> None,
   login_count |-> 0]

\* UserRepository::create_user: [res, users].  The INSERT and the read-back
\* are two round trips; a failed read-back leaves the inserted row behind.
create_user(users, user_data, salt, fails) ==
  IF "insert_user" \in fails \/ UniqueUsernameViolation(users, user_data.username)
  THEN [res |-> Err("Database"), users |-> users]
  ELSE LET row == new_user_row(users, user_data, salt)
           after == users \cup {row}
       IN [res |-> find_user_by_id(after, row.id, fails), users |-> after]

\* Mutant of password_result: the comparison's result is ignored.
password_result_always_ok(user, is_valid) == Ok(user)

\* if is_valid { Ok(user) } else { Err(RowNotFound) }
password_result(user, is_valid) ==
  IF is_valid THEN Ok(user) ELSE Err("RowNotFound")

\* Mutant of verify_password: the password is not compared.
verify_password_lookup_only(users, username, password, fails) ==
  find_by_username(users, username, fails)

\* UserRepository::verify_password
verify_password(users, username, password, fails) ==
  LET found == find_by_username(users, username, fails)
  IN IF ~found.ok THEN found
     ELSE password_result(found.val,
                          verify(password \o found.val.salt, found.val.password_hash))

\* Mutant of update_login_info: the row is written although the round trip
\* reports an error.
update_login_info_written_on_error(users, user_id, ip, t, fails) ==
  [res |-> IF "update_login_info" \in fails THEN Err("Database") ELSE Ok(TRUE),
   users |-> {IF u.id = user_id
              THEN [u EXCEPT !.last_login_at = Some(t),
                             !.last_login_ip = Some(ip),
                             !.login_count = @ + 1]
              ELSE u : u \in users}]

\* UserRepository::update_login_info: [res, users]
update_login_info(users, user_id, ip, t, fails) ==
  IF "update_login_info" \in fails
  THEN [res |-> Err("Database"), users |-> users]
  ELSE [res |-> Ok(TRUE),
        users |-> {IF u.id = user_id
                   THEN [u EXCEPT !.last_login_at = Some(t),
                                  !.last_login_ip = Some(ip),
                                  !.login_count = @ + 1]
                   ELSE u : u \in users}]

\* ---------------------------------------------------------------- SessionRepository

\* SessionRepository::find_by_id
find_session_by_id(sessions, id, fails) ==
  IF "find_session_by_id" \in fails THEN Err("Database")
  ELSE fetch_one({s \in sessions : s.id = id})

\* Mutant of create_session: the two token columns are swapped.
create_session_columns_swapped(sessions, id, user_id, token, refresh, expires_at, refresh_expires_at, fails) ==
  IF "insert_session" \in fails \/ UniqueTokenViolation(sessions, token, refresh)
  THEN [res |-> Err("Database"), sessions |-> sessions]
  ELSE LET row == [id |-> id, user_id |-> user_id, token |-> refresh,
                   refresh_token |-> token, expires_at |-> expires_at,
                   refresh_expires_at |-> refresh_expires_at]
           after == sessions \cup {row}
       IN [res |-> find_session_by_id(after, id, fails), sessions |-> after]

\* Mutant of create_session: the INSERT is accepted whatever the table holds.
create_session_unchecked(sessions, id, user_id, token, refresh, expires_at, refresh_expires_at, fails) ==
  IF "insert_session" \in fails
  THEN [res |-> Err("Database"), sessions |-> sessions]
  ELSE LET row == [id |-> id, user_id |-> user_id, token |-> token,
                   refresh_token |-> refresh, expires_at |-> expires_at,
                   refresh_expires_at |-> refresh_expires_at]
           after == sessions \cup {row}
       IN [res |-> find_session_by_id(after, id, fails), sessions |-> after]

\* SessionRepository::create_session: [res, sessions]
create_session(sessions, id, user_id, token, refresh, expires_at, refresh_expires_at, fails) ==
  IF "insert_session" \in fails \/ UniqueTokenViolation(sessions, token, refresh)
  THEN [res |-> Err("Database"), sessions |-> sessions]
  ELSE LET row == [id |-> id, user_id |-> user_id, token |-> token,
                   refresh_token |-> refresh, expires_at |-> expires_at,
                   refresh_expires_at |-> refresh_expires_at]
           after == sessions \cup {row}
       IN [res |-> find_session_by_id(after, id, fails), sessions |-> after]

\* Mutant of token_row_matches: either token column, and no expiry filter.
token_row_matches_any_column(s, token, t) ==
  s.token = token \/ s.refresh_token = token

\* The WHERE clause of find_by_token: token = ? AND expires_at > NOW()
token_row_matches(s, token, t) == s.token = token /\ s.expires_at > t

\* SessionRepository::find_by_token
find_by_token(sessions, token, t, fails) ==
  IF "find_by_token" \in fails THEN Err("Database")
  ELSE fetch_one({s \in sessions : token_row_matches(s, token, t)})

\* Mutant of delete_session: every row of the token's user is deleted.
delete_session_of_owner(sessions, token, fails) ==
  IF "delete_session" \in fails
  THEN [res |-> Err("Database"), sessions |-> sessions]
  ELSE [res |-> Ok(TRUE),
        sessions |-> {s \in sessions :
                        \A o \in sessions : o.token = token => s.user_id # o.user_id}]

\* SessionRepository::delete_session: [res, sessions]
delete_session(sessions, token, fails) ==
  IF "delete_session" \in fails
  THEN [res |-> Err("Database"), sessions |-> sessions]
  ELSE [res |-> Ok(TRUE), sessions |-> {s \in sessions : s.token # token}]

\* ---------------------------------------------------------------- ClipRepository

\* A row of clip_contents holds the columns the clip routes write or compare:
\* id, user_id, title, content, language, created_at, deleted_at.

\* COALESCE(?, column)
coalesce(value, column) == IF value = None THEN column ELSE value[1]

\* The struct ClipContent of a row: the selected columns, deleted_at not among them.
clip_content(row) ==
  [id |-> row.id, user_id |-> row.user_id, title |-> row.title,
   content |-> row.content, language |-> row.language,
   created_at |-> row.created_at]

\* ClipRepository::find_by_id: WHERE id = ? AND deleted_at IS NULL
find_clip_by_id(clips, id, fails) ==
  IF "find_clip_by_id" \in fails THEN Err("Database")
  ELSE LET rows == {c \in clips : c.id = id /\ c.deleted_at = None}
       IN IF rows = {} THEN Err("RowNotFound")
          ELSE Ok(clip_content(CHOOSE c \in rows : TRUE))

\* ClipRepository::create_clip: [res, clips]
ClipRepository_create_clip(clips, user_id, clip_data, t, fails) ==
  IF "insert_clip" \in fails THEN [res |-> Err("Database"), clips |-> clips]
  ELSE LET row == [id |-> Cardinality(clips) + 1, user_id |-> user_id,
                   title |-> clip_data.title, content |-> clip_data.content,
                   language |-> clip_data.language, created_at |-> t,
                   deleted_at |-> None]
           after == clips \cup {row}
       IN [res |-> find_clip_by_id(after, row.id, fails), clips |-> after]

\* let offset = (page - 1) * page_size: [value, overflow].  A build with
\* overflow checks panics on overflow, one without them keeps `value`.
page_offset(page, page_size) == i64_mul(i64_sub_one(page), page_size[1])

\* The orders in which ORDER BY created_at DESC may return `rows`.
created_at_desc(rows) ==
  {order \in [1..Cardinality(rows) -> rows] :
     /\ \A i, j \in DOMAIN order : i # j => order[i] # order[j]
     /\ \A i, j \in DOMAIN order : i < j => order[i].created_at >= order[j].created_at}

\* LIMIT page_size OFFSET offset of the rows `order`.
limit_offset(order, page_size, offset) ==
  IF i64_greater_than(offset, Len(order)) THEN <<>>
  ELSE SubSeq(order, offset[1] + 1, Min(Len(order), offset[1] + page_size[1]))

\* ClipRepository::find_by_user_id, for the offset computed and the order the
\* store returns; MySQL refuses a negative OFFSET.
find_by_user_id(order, page_size, offset, fails) ==
  IF "find_by_user_id" \in fails \/ i64_is_negative(offset) THEN Err("Database")
  ELSE Ok(limit_offset(order, page_size, offset))

\* The rows WHERE user_id = ? AND deleted_at IS NULL selects.
clips_of_user(clips, user_id) ==
  {clip_content(c) : c \in {r \in clips : r.user_id = user_id /\ r.deleted_at = None}}

\* ClipRepository::update_clip: [res, clips].  The UPDATE has
\* WHERE id = ? AND user_id = ?; the read-back is find_by_id(pool, id).
ClipRepository_update_clip(clips, id, user_id, clip_data, fails) ==
  IF "update_clip" \in fails THEN [res |-> Err("Database"), clips |-> clips]
  ELSE LET after == {IF c.id = id /\ c.user_id = user_id
                     THEN [c EXCEPT !.title = IF clip_data.title = None THEN @
                                               ELSE clip_data.title,
                                    !.content = coalesce(clip_data.content, @),
                                    !.language = clip_data.language]
                     ELSE c : c \in clips}
       IN [res |-> find_clip_by_id(after, id, fails), clips |-> after]

\* ClipRepository::delete_clip: [res, clips].  execute() is Ok whatever the
\* number of rows the UPDATE matched.
ClipRepository_delete_clip(clips, id, user_id, t, fails) ==
  IF "delete_clip" \in fails THEN [res |-> Err("Database"), clips |-> clips]
  ELSE [res |-> Ok(TRUE),
        clips |-> {IF c.id = id /\ c.user_id = user_id
                   THEN [c EXCEPT !.deleted_at = Some(t)]
                   ELSE c : c \in clips}]

\* ---------------------------------------------------------------- responses

\* ApiResponse::error(message) / a json!({"status": "error", ...}) body
error_response(status, message) ==
  [status |-> status, message |-> message, data |-> None]

\* ApiResponse::success(data, message)
success_response(status, message, data) ==
  [status |-> status, message |-> message, data |-> Some(data)]

\* #[derive(Serialize)] on User: every field of the struct is written.
serialize_user(user) ==
  [id |-> user.id, username |-> user.username, email |-> user.email,
   password_hash |-> user.password_hash, salt |-> user.salt,
   status |-> user.status, last_login_at |-> user.last_login_at,
   last_login_ip |-> user.last_login_ip, login_count |-> user.login_count]

\* The json!({...}) of get_me.
user_response(user) ==
  [id |-> user.id, username |-> user.username, email |-> user.email,
   status |-> user.status, last_login_at |-> user.last_login_at,
   login_count |-> user.login_count]

\* ---------------------------------------------------------------- handlers/mod.rs

\* format!(message, e): the text of `message` with the arguments `args` in
\* the place of its {}.
format_response(status, message, args) ==
  [status |-> status, message |-> message, args |-> args, data |-> None]

\* health_check: the response
health_check(t, fails) ==
  LET checked == check_database_health(fails)
  IN IF checked.ok
     THEN success_response(200, "server running, MySQL connected",
                           [status |-> "healthy", database |-> "connected",
                            timestamp |-> t])
     ELSE format_response(503, "database connection failed: {}", <<checked.err>>)

\* ---------------------------------------------------------------- handlers/auth.rs

\* Mutant of username_exists: the pre-check never finds the username.
username_exists_never(found) == FALSE

\* register's pre-check: find_by_username(..).is_ok()
username_exists(found) == found.ok

\* register after its pre-check, the match on create_user: [resp, users]
register_create(users, user_data, salt, fails) ==
  LET created == create_user(users, user_data, salt, fails)
  IN IF created.res.ok
     THEN [resp |-> success_response(201, "user registered",
                                     serialize_user(created.res.val)),
           users |-> created.users]
     ELSE [resp |-> error_response(500, "registration failed"),
           users |-> created.users]

\* register: [resp, users]
register(users, user_data, salt, fails) ==
  IF username_exists(find_by_username(users, user_data.username, fails))
  THEN [resp |-> error_response(400, "username already exists"), users |-> users]
  ELSE register_create(users, user_data, salt, fails)

\* addr.map(|ci| ci.0.ip().to_string()).unwrap_or_else(|| "unknown")
ip_of(addr) == IF addr = None THEN "unknown" ELSE addr[1]

\* Mutant of user_disabled: the status column is not looked at.
user_disabled_ignored(user) == FALSE

\* if user.status == 0
user_disabled(user) == user.status = 0

\* Mutant of token_claims: the subject is not the user who logs in.
token_claims_fixed_subject(user_id, t, ttl) == [sub |-> 1, exp |-> t + ttl, iat |-> t]

\* TokenClaims { sub, exp: (now + ttl).timestamp(), iat: now.timestamp() }
token_claims(user_id, t, ttl) == [sub |-> user_id, exp |-> t + ttl, iat |-> t]

\* LoginResponse { user, access_token, refresh_token, expires_in }
login_response(user, token, refresh) ==
  [user |-> serialize_user(user), access_token |-> token,
   refresh_token |-> refresh, expires_in |-> jwt_expires_in]

\* login: [resp, users, sessions, inserted]
login(users, sessions, id, t, login_data, addr, fails) ==
  LET checked == verify_password(users, login_data.username, login_data.password, fails)
      unchanged(resp) ==
        [resp |-> resp, users |-> users, sessions |-> sessions, inserted |-> FALSE]
  IN IF ~checked.ok
     THEN unchanged(error_response(401, "wrong username or password"))
     ELSE IF user_disabled(checked.val)
     THEN unchanged(error_response(403, "user is disabled"))
     ELSE
       LET user == checked.val
           expires_at == t + jwt_expires_in
           refresh_expires_at == t + jwt_refresh_expires_in
           token == encode(token_claims(user.id, t, jwt_expires_in), jwt_secret)
           refresh == encode(token_claims(user.id, t, jwt_refresh_expires_in), jwt_secret)
           created == create_session(sessions, id, user.id, token, refresh,
                                     expires_at, refresh_expires_at, fails)
       IN IF created.res.ok
          THEN [resp |-> success_response(200, "login succeeded",
                                          login_response(user, token, refresh)),
                users |-> update_login_info(users, user.id, ip_of(addr), t, fails).users,
                sessions |-> created.sessions,
                inserted |-> TRUE]
          ELSE [resp |-> error_response(500, "login failed"),
                users |-> users,
                sessions |-> created.sessions,
                inserted |-> created.sessions # sessions]

\* The session lookup of refresh_token: find_by_token(&pool, refresh_token)
find_refresh_session(sessions, token, t, fails) ==
  find_by_token(sessions, token, t, fails)

\* refresh_token: the response
refresh_token(sessions, t, headers, fails) ==
  IF headers = None
  THEN error_response(401, "missing authorization header")
  ELSE IF ~StartsWithBearer(headers[1])
  THEN error_response(401, "invalid token format")
  ELSE LET found == find_refresh_session(sessions, AfterBearer(headers[1]), t, fails)
       IN IF ~found.ok
          THEN error_response(401, "invalid refresh token")
          ELSE success_response(200, "token refreshed",
                 [access_token |->
                    encode(token_claims(found.val.user_id, t, jwt_expires_in), jwt_secret),
                  expires_in |-> jwt_expires_in,
                  token_type |-> "Bearer"])

\* logout: [resp, sessions]
logout(sessions, headers, fails) ==
  IF headers = None
  THEN [resp |-> error_response(401, "missing authorization header"),
        sessions |-> sessions]
  ELSE IF ~StartsWithBearer(headers[1])
  THEN [resp |-> error_response(401, "invalid token format"), sessions |-> sessions]
  ELSE LET deleted == delete_session(sessions, AfterBearer(headers[1]), fails)
       IN IF deleted.res.ok
          THEN [resp |-> success_response(200, "logged out", <<>>),
                sessions |-> deleted.sessions]
          ELSE [resp |-> error_response(500, "logout failed"),
                sessions |-> deleted.sessions]

\* get_me: the response
get_me(users, user_id, fails) ==
  LET found == find_user_by_id(users, user_id, fails)
  IN IF found.ok
     THEN success_response(200, "user fetched", user_response(found.val))
     ELSE error_response(404, "user does not exist")

\* ---------------------------------------------------------------- handlers/clips.rs

\* create_clip: [resp, clips]
create_clip(clips, user_id, clip_data, t, fails) ==
  LET created == ClipRepository_create_clip(clips, user_id, clip_data, t, fails)
  IN [resp |-> IF created.res.ok
               THEN success_response(201, "clip created", created.res.val)
               ELSE error_response(500, "clip creation failed"),
      clips |-> created.clips]

\* pagination.page.unwrap_or(1) / pagination.page_size.unwrap_or(20)
unwrap_or(option, default) == IF option = None THEN default ELSE option[1]

\* if page < 1 || page_size < 1 || page_size > 100
pagination_invalid(page, page_size) ==
  i64_less_than(page, 1) \/ i64_less_than(page_size, 1)
    \/ i64_greater_than(page_size, 100)

\* get_user_clips: [resp, queried, offset, panicked] for the order the store
\* returns the user's rows in; `checked` tells whether the build has overflow
\* checks.
get_user_clips(order, pagination, checked, fails) ==
  LET page == unwrap_or(pagination.page, i64(1))
      page_size == unwrap_or(pagination.page_size, i64(20))
  IN IF pagination_invalid(page, page_size)
     THEN [resp |-> error_response(400, "invalid pagination"), queried |-> FALSE,
           offset |-> None, panicked |-> FALSE]
     ELSE LET offset == page_offset(page, page_size)
          IN IF offset.overflow /\ checked
             THEN [resp |-> None, queried |-> FALSE, offset |-> None,
                   panicked |-> TRUE]
             ELSE LET found == find_by_user_id(order, page_size, offset.value, fails)
                  IN [resp |-> IF found.ok
                               THEN success_response(200, "clips fetched", found.val)
                               ELSE error_response(500, "fetching clips failed"),
                      queried |-> TRUE, offset |-> Some(offset.value),
                      panicked |-> FALSE]

\* update_clip: [resp, clips]
update_clip(clips, id, user_id, clip_data, fails) ==
  LET updated == ClipRepository_update_clip(clips, id, user_id, clip_data, fails)
  IN [resp |-> IF updated.res.ok
               THEN success_response(200, "clip updated", updated.res.val)
               ELSE IF updated.res.err = "RowNotFound"
               THEN error_response(404, "clip does not exist or no permission")
               ELSE error_response(500, "clip update failed"),
      clips |-> updated.clips]

\* delete_clip: [resp, clips]
delete_clip(clips, id, user_id, t, fails) ==
  LET deleted == ClipRepository_delete_clip(clips, id, user_id, t, fails)
  IN [resp |-> IF deleted.res.ok
               THEN success_response(200, "clip deleted", <<>>)
               ELSE IF deleted.res.err = "RowNotFound"
               THEN error_response(404, "clip does not exist or no permission")
               ELSE error_response(500, "clip deletion failed"),
      clips |-> deleted.clips]

\* ---------------------------------------------------------------- middlewares/mod.rs

\* extract_token_from_header
extract_token_from_header(headers) ==
  IF headers = None THEN None
  ELSE IF StartsWithBearer(headers[1]) THEN Some(AfterBearer(headers[1]))
  ELSE None

\* Mutant of auth: the session table is not consulted.
auth_without_session_lookup(sessions, headers, t, fails) ==
  LET token == extract_token_from_header(headers)
      reject(message) ==
        [pass |-> FALSE, resp |-> error_response(401, message), user_id |-> None]
  IN IF token = None
     THEN reject("missing token")
     ELSE LET claims == decode(token[1], jwt_secret, t)
          IN IF ~claims.ok
             THEN reject("invalid token")
             ELSE [pass |-> TRUE, resp |-> error_response(0, ""),
                   user_id |-> Some(claims.val.sub)]

\* auth: [pass, resp, user_id]; pass means next.run(request) is called with
\* user_id in the request's extensions.
auth(sessions, headers, t, fails) ==
  LET token == extract_token_from_header(headers)
      reject(message) ==
        [pass |-> FALSE, resp |-> error_response(401, message), user_id |-> None]
  IN IF token = None
     THEN reject("missing token")
     ELSE IF ~find_by_token(sessions, token[1], t, fails).ok
     THEN reject("token expired or invalid")
     ELSE LET claims == decode(token[1], jwt_secret, t)
          IN IF ~claims.ok
             THEN reject("invalid token")
             ELSE [pass |-> TRUE, resp |-> error_response(0, ""),
                   user_id |-> Some(claims.val.sub)]

\* ---------------------------------------------------------------- requests

\* The round trips of `ops` that fail during one request: none when the store
\* is healthy, at most one when it is faulty.
Fails(faulty, ops) == IF faulty THEN {{}} \cup {{o} : o \in ops} ELSE {{}}

\* The failures that matter to a request with these headers: a request without
\* a `Bearer ` header is answered before any round trip.
HeaderFails(faulty, headers, ops) ==
  IF headers = None \/ ~StartsWithBearer(headers[1]) THEN {{}} ELSE Fails(faulty, ops)

\* A token no login of this server signed.
ForgedToken == encode(token_claims(1, 0, MaxTime + 1), "attacker_secret")

\* The tokens a client can hold: the access and refresh tokens of the logins
\* whose rows exist or were deleted by a logout, the access token the last
\* refresh response returned, and a forged token.
ClientTokens ==
  {r.token : r \in clip_user_sessions \cup revoked}
  \cup {r.refresh_token : r \in clip_user_sessions \cup revoked}
  \cup (IF last.op = "refresh" /\ last.resp.status = 200
        THEN {last.resp.data[1].access_token} ELSE {})
  \cup {ForgedToken}

\* The Authorization headers clients send: none, `Bearer <token>`, and the
\* malformed variants of an access token the server issued (of the forged one
\* while there is none): lower-case scheme, no space, two spaces, no token.
RequestHeaders ==
  LET held == {r.token : r \in clip_user_sessions}
      tok == IF held = {} THEN ForgedToken ELSE CHOOSE t \in held : TRUE
  IN {None}
     \cup {Some(<<Bearer, Space>> \o t) : t \in ClientTokens}
     \cup {Some(<<[w |-> "bearer"], Space>> \o tok),
           Some(<<Bearer>> \o tok),
           Some(<<Bearer, Space, Space>> \o tok),
           Some(<<Bearer, Space>>)}

\* The bodies of the create and update requests of the clip routes.
CreateClips == {[title |-> None, content |-> "hello", language |-> None]}

UpdateClips ==
  {[title |-> Some("renamed"), content |-> None, language |-> None],
   [title |-> None, content |-> Some("replaced"), language |-> Some("rust")]}

\* The query strings of GET /api/clips: page and page_size absent, zero,
\* negative, small, at the limits of the validation and of an i64, and the
\* pages around the largest one whose offset fits at page_size = 100.
Pages ==
  {None, Some(I64Zero), Some(I64MinusOne), Some(i64(1)), Some(i64(2)),
   Some(<<18351, 31457, 44564, 327>>), Some(<<18352, 31457, 44564, 327>>),
   Some(<<1, 0, 0, Limb \div 4>>), Some(I64Max)}

PageSizes ==
  {None, Some(I64Zero), Some(I64MinusOne), Some(i64(1)), Some(i64(4)),
   Some(i64(100)), Some(i64(101)), Some(I64Max)}

Paginations == [page : Pages, page_size : PageSizes]

\* The Authorization headers of the clients of the clip routes: none, or the
\* access token of a session.
ClipHeaders ==
  {None} \cup {Some(<<Bearer, Space>> \o s.token) : s \in clip_user_sessions}

\* ---------------------------------------------------------------- actions

Init ==
  /\ clip_users = {}
  /\ clip_user_sessions = {}
  /\ next_session_id = 1
  /\ now = 0
  /\ revoked = {}
  /\ last = [op |-> "init"]
  /\ registering = {}
  /\ clip_contents = {}

\* POST /api/auth/register
Register(requests, faulty) ==
  \E user_data \in requests, salt \in Salts,
     fails \in Fails(faulty, {"find_by_username", "insert_user", "find_user_by_id"}) :
    LET out == register(clip_users, user_data, salt, fails)
    IN /\ clip_users' = out.users
       /\ last' = [op |-> "register", req |-> user_data, fails |-> fails,
                   resp |-> out.resp]
       /\ UNCHANGED <<clip_contents, registering, clip_user_sessions, next_session_id, now, revoked>>

\* POST /api/auth/register up to the end of its pre-check: the request is
\* answered 400, or it is in flight between find_by_username and create_user.
RegisterCheck(requests) ==
  \E user_data \in requests :
    IF username_exists(find_by_username(clip_users, user_data.username, {}))
    THEN /\ last' = [op |-> "register", req |-> user_data, fails |-> {},
                     resp |-> error_response(400, "username already exists")]
         /\ UNCHANGED <<clip_contents, registering, clip_users, clip_user_sessions, next_session_id,
                        now, revoked>>
    ELSE /\ user_data \notin registering
         /\ registering' = registering \cup {user_data}
         /\ UNCHANGED <<clip_contents, clip_users, clip_user_sessions, next_session_id, now,
                        revoked, last>>

\* POST /api/auth/register from create_user on, for a request in flight.
RegisterCreate ==
  \E user_data \in registering, salt \in Salts :
    LET out == register_create(clip_users, user_data, salt, {})
    IN /\ clip_users' = out.users
       /\ registering' = registering \ {user_data}
       /\ last' = [op |-> "register", req |-> user_data, fails |-> {},
                   resp |-> out.resp]
       /\ UNCHANGED <<clip_contents, clip_user_sessions, next_session_id, now, revoked>>

\* POST /api/auth/login
Login(requests, faulty) ==
  /\ next_session_id <= MaxSessions
  /\ \E login_data \in requests, addr \in Addrs,
        fails \in Fails(faulty, {"find_by_username", "insert_session", "find_session_by_id",
                         "update_login_info"}) :
       LET out == login(clip_users, clip_user_sessions, next_session_id, now,
                        login_data, addr, fails)
       IN /\ clip_users' = out.users
          /\ clip_user_sessions' = out.sessions
          /\ next_session_id' = IF out.inserted THEN next_session_id + 1
                                ELSE next_session_id
          /\ last' = [op |-> "login", req |-> login_data, fails |-> fails,
                      resp |-> out.resp]
          /\ UNCHANGED <<clip_contents, registering, now, revoked>>

\* Mutant of Refresh: the row of an accepted token is deleted (single use).
RefreshConsumesSession(faulty) ==
  \E headers \in RequestHeaders : \E fails \in HeaderFails(faulty, headers, {"find_by_token"}) :
    LET resp == refresh_token(clip_user_sessions, now, headers, fails)
    IN /\ last' = [op |-> "refresh", headers |-> headers, fails |-> fails,
                   resp |-> resp]
       /\ clip_user_sessions' =
            IF resp.status = 200
            THEN {s \in clip_user_sessions : s.token # AfterBearer(headers[1])}
            ELSE clip_user_sessions
       /\ UNCHANGED <<clip_contents, registering, clip_users, next_session_id, now, revoked>>

\* POST /api/auth/refresh
Refresh(faulty) ==
  \E headers \in RequestHeaders : \E fails \in HeaderFails(faulty, headers, {"find_by_token"}) :
    LET resp == refresh_token(clip_user_sessions, now, headers, fails)
    IN /\ last' = [op |-> "refresh", headers |-> headers, fails |-> fails,
                   resp |-> resp]
       /\ UNCHANGED <<clip_contents, registering, clip_users, clip_user_sessions, next_session_id, now, revoked>>

\* POST /api/auth/logout, a route of auth_routes: the middleware runs first.
Logout(faulty) ==
  \E headers \in RequestHeaders :
  \E fails \in HeaderFails(faulty, headers, {"find_by_token", "delete_session"}) :
    LET gate == auth(clip_user_sessions, headers, now, fails)
        out == logout(clip_user_sessions, headers, fails)
    IN IF gate.pass
       THEN /\ clip_user_sessions' = out.sessions
            /\ revoked' = revoked \cup (clip_user_sessions \ out.sessions)
            /\ last' = [op |-> "logout", headers |-> headers, fails |-> fails,
                        ran |-> TRUE, user_id |-> gate.user_id, resp |-> out.resp]
            /\ UNCHANGED <<clip_contents, registering, clip_users, next_session_id, now>>
       ELSE /\ last' = [op |-> "logout", headers |-> headers, fails |-> fails,
                        ran |-> FALSE, user_id |-> None, resp |-> gate.resp]
            /\ UNCHANGED <<clip_contents, registering, clip_users, clip_user_sessions, next_session_id, now,
                           revoked>>

\* GET /api/auth/me, a route of auth_routes: the middleware runs first.
GetMe(faulty) ==
  \E headers \in RequestHeaders :
  \E fails \in HeaderFails(faulty, headers, {"find_by_token", "find_user_by_id"}) :
    LET gate == auth(clip_user_sessions, headers, now, fails)
    IN /\ last' = IF gate.pass
                  THEN [op |-> "me", headers |-> headers, fails |-> fails,
                        ran |-> TRUE, user_id |-> gate.user_id,
                        resp |-> get_me(clip_users, gate.user_id[1], fails)]
                  ELSE [op |-> "me", headers |-> headers, fails |-> fails,
                        ran |-> FALSE, user_id |-> None, resp |-> gate.resp]
       /\ UNCHANGED <<clip_contents, registering, clip_users, clip_user_sessions, next_session_id, now,
                      revoked>>

\* GET /health
HealthCheck(faulty) ==
  \E fails \in Fails(faulty, {"select_1"}) :
    /\ last' = [op |-> "health", fails |-> fails, resp |-> health_check(now, fails)]
    /\ UNCHANGED <<clip_contents, registering, clip_users, clip_user_sessions, next_session_id, now, revoked>>

\* A request to a clip route of auth_routes: the middleware runs first, and
\* `run` maps the user id the middleware attached to the handler's [resp, clips].
ClipRequest(op, headers, id, run) ==
  LET gate == auth(clip_user_sessions, headers, now, {})
  IN IF gate.pass
     THEN LET out == run[gate.user_id[1]]
          IN /\ clip_contents' = out.clips
             /\ last' = [op |-> op, headers |-> headers, fails |-> {}, id |-> id,
                         ran |-> TRUE, user_id |-> gate.user_id, resp |-> out.resp]
     ELSE /\ clip_contents' = clip_contents
          /\ last' = [op |-> op, headers |-> headers, fails |-> {}, id |-> id,
                      ran |-> FALSE, user_id |-> None, resp |-> gate.resp]

\* POST /api/clips
CreateClip ==
  /\ Cardinality(clip_contents) < MaxClips
  /\ \E headers \in ClipHeaders, clip_data \in CreateClips :
       LET run == [user_id \in {u.id : u \in clip_users} |->
                    create_clip(clip_contents, user_id, clip_data, now, {})]
       IN ClipRequest("create_clip", headers, Cardinality(clip_contents) + 1, run)
  /\ UNCHANGED <<clip_users, clip_user_sessions, next_session_id, now, revoked,
                 registering>>

\* PUT /api/clips/:id
UpdateClip ==
  /\ \E headers \in ClipHeaders, id \in 1..MaxClips, clip_data \in UpdateClips :
       LET run == [user_id \in {u.id : u \in clip_users} |->
                    update_clip(clip_contents, id, user_id, clip_data, {})]
       IN ClipRequest("update_clip", headers, id, run)
  /\ UNCHANGED <<clip_users, clip_user_sessions, next_session_id, now, revoked,
                 registering>>

\* DELETE /api/clips/:id
DeleteClip ==
  /\ \E headers \in ClipHeaders, id \in 1..MaxClips :
       LET run == [user_id \in {u.id : u \in clip_users} |->
                    delete_clip(clip_contents, id, user_id, now, {})]
       IN ClipRequest("delete_clip", headers, id, run)
  /\ UNCHANGED <<clip_users, clip_user_sessions, next_session_id, now, revoked,
                 registering>>

\* GET /api/clips, in a build with (`checked`) or without overflow checks.
GetUserClips ==
  /\ \E headers \in ClipHeaders, pagination \in Paginations, checked \in BOOLEAN :
       LET gate == auth(clip_user_sessions, headers, now, {})
       IN IF gate.pass
          THEN \E order \in created_at_desc(clips_of_user(clip_contents, gate.user_id[1])) :
                 LET out == get_user_clips(order, pagination, checked, {})
                 IN last' = [op |-> "get_user_clips", headers |-> headers,
                             fails |-> {}, req |-> pagination, ran |-> TRUE,
                             user_id |-> gate.user_id, resp |-> out.resp,
                             queried |-> out.queried, offset |-> out.offset,
                             panicked |-> out.panicked]
          ELSE last' = [op |-> "get_user_clips", headers |-> headers,
                        fails |-> {}, req |-> pagination, ran |-> FALSE,
                        user_id |-> None, resp |-> gate.resp, queried |-> FALSE,
                        offset |-> None, panicked |-> FALSE]
  /\ UNCHANGED <<clip_users, clip_user_sessions, next_session_id, now, revoked,
                 registering, clip_contents>>

\* One second passes.
Tick ==
  /\ now < MaxTime
  /\ now' = now + 1
  /\ last' = [op |-> "tick"]
  /\ UNCHANGED <<clip_contents, registering, clip_users, clip_user_sessions, next_session_id, revoked>>

\* An administrator sets a user's status column to 0 in the database.
DisableUser ==
  \E u \in clip_users :
    /\ u.status = 1
    /\ clip_users' = (clip_users \ {u}) \cup {[u EXCEPT !.status = 0]}
    /\ last' = [op |-> "admin"]
    /\ UNCHANGED <<clip_contents, registering, clip_user_sessions, next_session_id, now, revoked>>

\* The server with a healthy store.
Next ==
  \/ Register(RegisterRequests, FALSE)
  \/ Login(LoginRequests, FALSE)
  \/ Refresh(FALSE)
  \/ Logout(FALSE)
  \/ GetMe(FALSE)
  \/ HealthCheck(FALSE)
  \/ Tick
  \/ DisableUser

Spec == Init /\ [][Next]_vars

\* The server with a store whose round trips may fail.
NextFaulty ==
  \/ Register(RegisterRequests, TRUE)
  \/ Login(LoginRequests, TRUE)
  \/ Refresh(TRUE)
  \/ Logout(TRUE)
  \/ GetMe(TRUE)
  \/ HealthCheck(TRUE)
  \/ Tick
  \/ DisableUser

SpecFaulty == Init /\ [][NextFaulty]_vars

\* The routes that write clip_users or clip_user_sessions, with a store whose
\* round trips may fail during a login.
NextLoginFaulty ==
  \/ Register(RegisterRequests, FALSE)
  \/ Login(LoginRequests, TRUE)
  \/ Logout(FALSE)
  \/ Tick
  \/ DisableUser

SpecLoginFaulty == Init /\ [][NextLoginFaulty]_vars

\* The server with a healthy store and two users who log in and out.
NextTwoUsers ==
  \/ Register(TwoUserRegisterRequests, FALSE)
  \/ Login(TwoUserLoginRequests, FALSE)
  \/ Logout(FALSE)
  \/ GetMe(FALSE)
  \/ Tick

SpecTwoUsers == Init /\ [][NextTwoUsers]_vars

\* The server with a healthy store and register requests that run
\* concurrently: the await points of register are steps of their own.
NextConcurrentRegister ==
  \/ RegisterCheck(RegisterRequests)
  \/ RegisterCreate
  \/ Login(LoginRequests, FALSE)
  \/ Logout(FALSE)
  \/ Tick
  \/ DisableUser

SpecConcurrentRegister == Init /\ [][NextConcurrentRegister]_vars

\* The server with a healthy store, two users and the clip routes that write.
NextClips ==
  \/ Register(TwoUserRegisterRequests, FALSE)
  \/ Login(TwoUserLoginRequests, FALSE)
  \/ CreateClip
  \/ UpdateClip
  \/ DeleteClip

SpecClips == Init /\ [][NextClips]_vars

\* The server with a healthy store, one user, and the clip routes that
\* create and list.
NextPagination ==
  \/ Register(RegisterRequests, FALSE)
  \/ Login(LoginRequests, FALSE)
  \/ CreateClip
  \/ GetUserClips

SpecPagination == Init /\ [][NextPagination]_vars

\* ---------------------------------------------------------------- properties

\* The token a `Bearer <token>` header carries.
Carries(headers, token) ==
  headers # None /\ StartsWithBearer(headers[1]) /\ AfterBearer(headers[1]) = token

WellFormed(headers) == headers # None /\ StartsWithBearer(headers[1])

\* The last step was a request to a route behind the middleware.
Gated(l) == l.op \in {"me", "logout"}

\* The rows of clip_users a login request's credentials match.
Matching(users, login_data) ==
  {u \in users : /\ u.username = login_data.username
                 /\ verify(login_data.password \o u.salt, u.password_hash)}

\* C1: once a logout of a session's access token has completed, every later
\* request to a protected route that carries that token is answered 401 and
\* does not reach its handler.
C1_RevokedTokenRejected ==
  [][\A r \in revoked :
       (Gated(last') /\ Carries(last'.headers, r.token))
         => (last'.resp.status = 401 /\ ~last'.ran)]_vars

\* C2: a request to a protected route reaches its handler only if its header
\* has Bearer form, a session row holds the presented token in its token
\* column with expires_at > now, and the token verifies under the server's
\* secret; in every other case the answer is 401 and the handler does not run.
C2_GateSafety ==
  [][Gated(last') =>
       LET h == last'.headers
           admitted ==
             /\ WellFormed(h)
             /\ \E s \in clip_user_sessions :
                  s.token = AfterBearer(h[1]) /\ s.expires_at > now
             /\ decode(AfterBearer(h[1]), jwt_secret, now).ok
       IN /\ last'.ran => admitted
          /\ ~admitted => (~last'.ran /\ last'.resp.status = 401)]_vars

C2_Witness ==
  /\ last.op = "me" /\ last.ran /\ last.resp.status = 200
  /\ revoked # {}

\* C3: a refresh request carrying the refresh token of an existing session,
\* before that session's refresh expiry, is answered 200 with a new access
\* token whose subject is the session's user and whose expiry is now plus the
\* access TTL.
C3_RefreshSucceeds ==
  \A s \in clip_user_sessions :
    (last.op = "refresh" /\ Carries(last.headers, s.refresh_token)
       /\ now < s.refresh_expires_at)
      => /\ last.resp.status = 200
         /\ last.resp.data[1].access_token =
              encode(token_claims(s.user_id, now, jwt_expires_in), jwt_secret)

\* C4: a refresh request carrying the refresh token of a session at or after
\* that session's refresh expiry is answered 401 and returns no token.
C4_ExpiredRefreshRejected ==
  \A s \in clip_user_sessions \cup revoked :
    (last.op = "refresh" /\ Carries(last.headers, s.refresh_token)
       /\ now >= s.refresh_expires_at)
      => (last.resp.status = 401 /\ last.resp.data = None)

C4_Witness ==
  \E s \in clip_user_sessions :
    /\ last.op = "refresh" /\ Carries(last.headers, s.refresh_token)
    /\ now >= s.refresh_expires_at
    /\ last.resp.status = 401

\* C5: a login whose username is unknown or whose password does not match is
\* answered 401 without tokens and changes neither the session table nor any
\* user row.
C5_FailedLoginNoEffect ==
  [][(last'.op = "login" /\ Matching(clip_users, last'.req) = {})
       => /\ last'.resp.status = 401
          /\ last'.resp.data = None
          /\ clip_users' = clip_users
          /\ clip_user_sessions' = clip_user_sessions]_vars

C5_Witness ==
  /\ last.op = "login" /\ last.resp.status = 401
  /\ \E u \in clip_users : u.username = last.req.username
  /\ clip_user_sessions # {}

\* C6: a login with the correct credentials of a user whose status is 0 is
\* answered 403 without tokens, inserts no session row and leaves the user's
\* login counters alone.
C6_DisabledUserRejected ==
  [][(last'.op = "login"
        /\ \E u \in Matching(clip_users, last'.req) : u.status = 0)
       => /\ last'.resp.status = 403
          /\ last'.resp.data = None
          /\ clip_users' = clip_users
          /\ clip_user_sessions' = clip_user_sessions]_vars

C6_Witness ==
  /\ last.op = "login" /\ last.resp.status = 403
  /\ \E u \in Matching(clip_users, last.req) : u.status = 0

UserObjects(l) ==
  IF l.resp.data = None THEN {}
  ELSE IF l.op = "login" THEN {l.resp.data[1].user}
  ELSE {l.resp.data[1]}

\* C8: no body of a successful register, login or /api/auth/me response
\* holds the user's password digest or salt.
C8_NoCredentialMaterial ==
  (last.op \in {"register", "login", "me"} /\ last.resp.status \in {200, 201})
    => \A o \in UserObjects(last) : DOMAIN o \cap {"password_hash", "salt"} = {}

\* C9: a logout request with a well-formed `Bearer <token>` header is answered
\* 200 whether or not a session row matches the token.
C9_LogoutIdempotent ==
  (last.op = "logout" /\ WellFormed(last.headers)) => last.resp.status = 200

\* C10: once a username is registered, a later register request for it is
\* answered 400 and leaves clip_users, the first user's row included, as it
\* was.
C10_DuplicateRegistration ==
  [][(last'.op = "register"
        /\ \E u \in clip_users : u.username = last'.req.username)
       => /\ last'.resp.status = 400
          /\ last'.resp.data = None
          /\ clip_users' = clip_users]_vars

C10_Witness ==
  /\ last.op = "register" /\ last.resp.status = 400
  /\ \E u \in clip_users : u.username = last.req.username /\ u.email # last.req.email

\* C11: every login with the correct credentials of an enabled user is
\* answered 200 and adds a session row of its own, whatever other logins of
\* the same user ran before it, the ones of the same clock second included.
C11_ConcurrentLoginsSucceed ==
  [][(last'.op = "login"
        /\ \E u \in Matching(clip_users, last'.req) : u.status = 1)
       => /\ last'.resp.status = 200
          /\ \E s \in clip_user_sessions' \ clip_user_sessions :
               s.id = next_session_id]_vars

\* The tokens the logins signed, each with the expiry it was signed with.
IssuedTokens ==
  {s.token : s \in clip_user_sessions \cup revoked}
  \cup {s.refresh_token : s \in clip_user_sessions \cup revoked}

\* C12: a token signed at instant i with TTL t (exp = i + t) verifies under
\* the server's secret at instant i + t - 1 and does not verify at instant
\* i + t + 1.
C12_ExpiryBoundary ==
  \A token \in IssuedTokens :
    /\ now = token[1].exp - 1 => decode(token, jwt_secret, now).ok
    /\ now = token[1].exp + 1 => ~decode(token, jwt_secret, now).ok

\* C13: the middleware answers every request it rejects with the same status
\* and message, whichever of its checks failed (header form, session lookup,
\* token verification): two rejected requests in a row get equal responses.
C13_UniformGateFailure ==
  [][(Gated(last) /\ ~last.ran /\ Gated(last') /\ ~last'.ran)
       => last'.resp = last.resp]_vars

\* The login request names no row of clip_users.
UnknownUser(login_data) == \A u \in clip_users : u.username # login_data.username

\* The login request names a row of clip_users and its password does not match.
WrongPassword(login_data) ==
  /\ \E u \in clip_users : u.username = login_data.username
  /\ Matching(clip_users, login_data) = {}

\* C14: a login with an unknown username and a login with a known username
\* and a wrong password get the same response, 401 with the same message: the
\* response of a failed login is the one every other failing login request
\* gets from the same tables.
C14_UniformLoginFailure ==
  (last.op = "login" /\ (UnknownUser(last.req) \/ WrongPassword(last.req)))
    => /\ last.resp.status = 401
       /\ \A other \in LoginRequests :
            (UnknownUser(other) \/ WrongPassword(other))
              => login(clip_users, clip_user_sessions, next_session_id, now,
                       other, None, {}).resp = last.resp

C14_Witness ==
  /\ last.op = "login" /\ UnknownUser(last.req) /\ last.resp.status = 401
  /\ \E other \in LoginRequests : WrongPassword(other)

\* The last step was a request whose lookup (register's username pre-check,
\* login's credential lookup, refresh's or the middleware's session lookup)
\* ended with a database error.
LookupFailed(l) ==
  \/ l.op \in {"register", "login"} /\ "find_by_username" \in l.fails
  \/ l.op \in {"refresh", "me", "logout"} /\ "find_by_token" \in l.fails

\* C15: a request whose lookup fails with a database error (not "no such
\* row") is answered 500; it is not answered 400 or 401 and is not processed
\* as if the row were absent.
C15_StoreFailureIs500 == LookupFailed(last) => last.resp.status = 500

\* The texts of the store layer's errors (the `e` of an Err(e)).
StoreErrorTexts == {"Database", "RowNotFound"}

\* C16: no response body of any route, /health included, holds the text of a
\* store-layer error.
C16_NoStoreErrorText ==
  (last.op \in {"register", "login", "refresh", "logout", "me", "health"}
     /\ "args" \in DOMAIN last.resp)
    => \A i \in DOMAIN last.resp.args : last.resp.args[i] \notin StoreErrorTexts

\* C17: a login whose accounting update fails after its session row was
\* inserted is still answered 200 with both tokens of that row, the row stays
\* and no user row changes; and a login changes a user row only when it has
\* inserted its session row and is answered 200.
C17_AccountingBestEffort ==
  [][last'.op = "login" =>
       LET added == clip_user_sessions' \ clip_user_sessions
       IN /\ ("update_login_info" \in last'.fails /\ added # {})
               => /\ last'.resp.status = 200
                  /\ \E s \in added :
                       /\ last'.resp.data[1].access_token = s.token
                       /\ last'.resp.data[1].refresh_token = s.refresh_token
                  /\ clip_users' = clip_users
          /\ clip_users' # clip_users
               => (added # {} /\ last'.resp.status = 200)]_vars

C17_Witness ==
  /\ last.op = "login" /\ "update_login_info" \in last.fails
  /\ last.resp.status = 200
  /\ \E s \in clip_user_sessions : s.token = last.resp.data[1].access_token
  /\ \A u \in clip_users : u.login_count = 0

\* The header is `Bearer `, one space, and a token that is not empty and does
\* not begin with a further space.
ExactBearer(headers) ==
  /\ WellFormed(headers)
  /\ AfterBearer(headers[1]) # <<>>
  /\ AfterBearer(headers[1])[1] # Space

\* C18: a request to a protected route whose Authorization header is not
\* exactly `Bearer <token>` (absent, `bearer x`, `Bearer` without space,
\* `Bearer  x` with two spaces, `Bearer ` without token) is answered 401 by
\* the branch that precedes the session lookup (no token extracted), and its
\* handler does not run.
C18_BearerExact ==
  (Gated(last) /\ ~ExactBearer(last.headers))
    => /\ last.resp = error_response(401, "missing token")
       /\ ~last.ran

\* C19: a logout that runs deletes exactly the rows whose token column equals
\* the presented token; a logout request, whatever it presents (a session's
\* refresh token included), leaves every other row as it was; and the access
\* token of a row that is in the table is accepted by the middleware, as that
\* row's user, until the row's expires_at.
C19_LogoutExactMatch ==
  [][/\ last'.op = "logout" =>
          /\ \A s \in clip_user_sessions :
               ~Carries(last'.headers, s.token) => s \in clip_user_sessions'
          /\ clip_user_sessions' \subseteq clip_user_sessions
          /\ (last'.ran /\ last'.resp.status = 200) =>
               clip_user_sessions' =
                 {s \in clip_user_sessions : ~Carries(last'.headers, s.token)}
          /\ (\E s \in clip_user_sessions : Carries(last'.headers, s.refresh_token))
               => clip_user_sessions' = clip_user_sessions
     /\ \A s \in clip_user_sessions :
          (Gated(last') /\ Carries(last'.headers, s.token) /\ now < s.expires_at)
            => (last'.ran /\ last'.user_id = Some(s.user_id))]_vars

\* A session of one user was logged out, and the token of another user's
\* session, which is still in the table, has been accepted since.
C19_Witness ==
  /\ last.op = "me" /\ last.ran /\ last.resp.status = 200
  /\ \E s \in clip_user_sessions, r \in revoked :
       /\ Carries(last.headers, s.token)
       /\ r.user_id # s.user_id
       /\ r.expires_at = s.expires_at

\* C20: a refresh request, answered 200 or not, leaves the session table, the
\* user table and the id counter as they were; it is answered 200 exactly
\* when a row holds the presented token in the column the lookup reads with
\* expires_at still ahead, so a token that was accepted is accepted again for
\* as long as that row is in the table and not expired.
C20_RefreshDoesNotWrite ==
  [][last'.op = "refresh" =>
       LET live == {s \in clip_user_sessions :
                      Carries(last'.headers, s.token) /\ now < s.expires_at}
       IN /\ clip_user_sessions' = clip_user_sessions
          /\ clip_users' = clip_users
          /\ next_session_id' = next_session_id
          /\ last'.resp.status = 200 <=> live # {}]_vars

\* A refresh was answered 200 and the row of its token is still in the table.
C20_Witness ==
  /\ last.op = "refresh" /\ last.resp.status = 200
  /\ \E s \in clip_user_sessions :
       Carries(last.headers, s.token) /\ now < s.expires_at

\* C21: the access token a refresh answered 200 has just returned is admitted
\* by the middleware, for the user the token names, when it is presented to a
\* protected route in the next request (the same instant, no logout between).
C21_RefreshedTokenUsable ==
  [][(/\ last.op = "refresh" /\ last.resp.status = 200
      /\ Gated(last')
      /\ Carries(last'.headers, last.resp.data[1].access_token))
       => /\ last'.ran
          /\ last'.user_id = Some(last.resp.data[1].access_token[1].sub)]_vars

\* C22: a refresh request whose token is the refresh_token of no session row
\* (a live session's access token, for one) is answered 401 and returns no
\* token.
C22_RefreshRejectsAccessToken ==
  (last.op = "refresh"
     /\ \A s \in clip_user_sessions : ~Carries(last.headers, s.refresh_token))
    => (last.resp.status = 401 /\ last.resp.data = None)

\* C23: once a logout has deleted a session row, every later refresh request
\* that presents that row's access token or refresh token is answered 401.
C23_LogoutEndsRefresh ==
  [][\A r \in revoked :
       (last'.op = "refresh"
          /\ (Carries(last'.headers, r.token)
                \/ Carries(last'.headers, r.refresh_token)))
         => last'.resp.status = 401]_vars

\* C24: when register requests for one username run concurrently, at most one
\* row of clip_users holds the username afterwards, a request answered when
\* no row holds it gets 201, and a request answered when a row already holds
\* it gets 400 (not 500) and changes nothing.
C24_ConcurrentDuplicateRegistration ==
  [][last'.op = "register" =>
       LET same(users) == {u \in users : u.username = last'.req.username}
       IN /\ Cardinality(same(clip_users')) = 1
          /\ same(clip_users) = {} => last'.resp.status = 201
          /\ same(clip_users) # {}
               => (last'.resp.status = 400 /\ clip_users' = clip_users)]_vars

C26_IdentityMatchesSession ==
  [][/\ (Gated(last') /\ last'.ran) =>
          /\ \E s \in clip_user_sessions : Carries(last'.headers, s.token)
          /\ \A s \in clip_user_sessions :
               Carries(last'.headers, s.token) => last'.user_id = Some(s.user_id)
     /\ last'.op = "login" =>
          \A s \in clip_user_sessions' \ clip_user_sessions :
            \E u \in Matching(clip_users, last'.req) : s.user_id = u.id]_vars

\* A request with the token of the second user's session was admitted as the
\* second user while a session of the first user was in the table.
C26_Witness ==
  /\ last.op = "me" /\ last.ran /\ last.user_id = Some(2)
  /\ \E s \in clip_user_sessions : s.user_id = 1
  /\ \E s \in clip_user_sessions : s.user_id = 2 /\ Carries(last.headers, s.token)

\* C27: an update_clip or delete_clip request that the middleware admits for
\* a user who does not own the clip leaves clip_contents as it was and is
\* answered 404 without data: never 200, never with the clip's content.
C27_ClipOwnershipOnWrite ==
  [][(/\ last'.op \in {"update_clip", "delete_clip"}
      /\ last'.ran
      /\ \E c \in clip_contents :
           c.id = last'.id /\ c.user_id # last'.user_id[1] /\ c.deleted_at = None)
       => /\ clip_contents' = clip_contents
          /\ last'.resp.status = 404
          /\ last'.resp.data = None]_vars

\* C28: a get_user_clips request that passes the validation (page >= 1,
\* 1 <= page_size <= 100) computes an offset (page - 1) * page_size that is
\* not negative and is the product itself (no overflow, no wrap-around, no
\* panic); a request that fails the validation is answered 400 and no query
\* is sent to the store.
C28_PaginationOffsetInRange ==
  (last.op = "get_user_clips" /\ last.ran) =>
    LET page == unwrap_or(last.req.page, i64(1))
        page_size == unwrap_or(last.req.page_size, i64(20))
    IN IF pagination_invalid(page, page_size)
       THEN last.resp = error_response(400, "invalid pagination") /\ ~last.queried
       ELSE /\ ~last.panicked
            /\ ~page_offset(page, page_size).overflow
            /\ last.offset # None
            /\ ~i64_is_negative(last.offset[1])

====
